---- MODULE Spec2Model ----
(***************************************************************************)
(* Scoring pipeline of daggle: SubmissionService.submit (synchronous and   *)
(* queued scoring), the Celery task score_submission_task with its async   *)
(* body _score_submission_async, and the persisted Submission rows they    *)
(* read and write through the SQLAlchemy unit of work.                     *)
(***************************************************************************)
EXTENDS Integers, Sequences, FiniteSets, Bags, TLC

\* ------------------------------------------------------------------ bounds
MaxSubs == 1          \* uploads stored in one behaviour
MaxRedeliver == 1     \* duplicate deliveries of an unacknowledged job
MaxTime == 2          \* clock ticks; the competition window is 1..MaxTime-1
MaxFaults == 1        \* exceptions raised by the storage or inside the scorer
MaxRows == 3          \* rows of the submissions table read by a leaderboard query
MaxCsvRows == 2       \* data rows of a validated CSV file

\* ------------------------------------------------------- program constants
max_retries == 3      \* ScoringTask.max_retries

\* ----------------------------------------------------------------- values
None == <<>>
Some(v) == <<v>>

SubIds == 1..MaxSubs
Users == {"u1", "u2"}
Scores == {1, 2}
\* the draws of random.uniform taken by mock scoring, as <<public, private>>
MockDraws == {d \in Scores \X Scores : d[1] # d[2]}

\* CompetitionStatus (two of the five values: the accepting one and one other)
CompetitionStatus == {"active", "draft"}

\* Upload contents, by what the validator makes of them: "malformed" fails
\* the column pre-validation of submit, "ok" passes it and scores 1 against
\* a well-formed solution.
Contents == {"ok", "malformed"}

\* validate_submission(content, "id", "prediction") as called by submit
PreValid(content) == content # "malformed"

\* Scorer.score: a ScoringResult, deterministic in (solution, content)
ScorerScore(solution, content) ==
  IF solution = "broken"
    THEN [success |-> FALSE, score |-> None,
          error_message |-> Some(<<"Solution file error: ", "missing">>)]
  ELSE IF ~PreValid(content)
    THEN [success |-> FALSE, score |-> None,
          error_message |-> Some(<<"", "validation">>)]
  ELSE [success |-> TRUE, score |-> Some(1),
        error_message |-> None]

\* f"Scoring error: {str(e)}"
ScoringError(detail) == Some(<<"Scoring error: ", detail>>)

\* a row that does not exist (session.get returns None)
NoRow == [status |-> "ABSENT"]

\* Submission(...) as constructed by submit, after repo.create
NewSubmission(user, content, t) ==
  [status |-> "PENDING", public_score |-> None, private_score |-> None,
   error_message |-> None, scored_at |-> None,
   user_id |-> user, created_at |-> t, content |-> content]

\* the unit of work's UPDATE: only attributes whose assigned value differs
\* from the value last loaded into the object are written
Flush(row, obj, asg) ==
  [f \in DOMAIN row |->
     IF f \in DOMAIN asg /\ asg[f] # obj[f] THEN asg[f] ELSE row[f]]

\* func.date(created_at)
Date(t) == t \div 2

\* Competition records.  Limits above MaxSubs are never reached; an unknown
\* evaluation metric is only looked at when a solution file is set, and a
\* competition that is not active accepts nothing, whatever its other fields.
Competitions ==
  {c \in [status : CompetitionStatus,
          start_date : {1},
          end_date : {MaxTime - 1},
          daily_submission_limit : 1..MaxSubs,
          solution : {"none", "ok", "broken"},
          metric_known : BOOLEAN] :
     /\ ~c.metric_known => c.solution = "ok"
     /\ c.status # "active" =>
          (c.solution = "ok" /\ c.metric_known
           /\ c.daily_submission_limit = 1)}

VARIABLES
  db,                     \* committed submissions table: SubIds -> row
  files,                  \* number of stored upload blobs
  queue,                  \* bag of jobs awaiting delivery
  running,                \* bag of task executions in progress
  now,                    \* clock
  competition,            \* the competition record
  async_scoring_enabled,  \* settings.async_scoring_enabled
  procCount,              \* per submission: times status became PROCESSING
  termCount,              \* per submission: terminal-status writes
                          \* (both counted up to 2)
  redelivered,            \* duplicate deliveries made
  faults,                 \* storage and scorer exceptions raised
  ev,                     \* the last operation and its outcome
  request,                \* arguments of the last query or validation call
  response                \* what that call returned

vars == <<db, files, queue, running, now, competition, async_scoring_enabled,
          procCount, termCount, redelivered, faults, ev, request, response>>

NoNotify == <<"none">>

\* no query or validation call has been made
NoCall == [op |-> "none"]

\* an operation, its arguments, how it ended (return value or exception), how
\* many times it ran the scorer or the mock scoring, and the notification it
\* attempted
Event(op, sid, user, out, score, calls, notify) ==
  [op |-> op, sid |-> sid, user |-> user, out |-> out, score |-> score,
   calls |-> calls, notify |-> notify]

Init ==
  /\ db = [s \in SubIds |-> NoRow]
  /\ files = 0
  /\ queue = EmptyBag
  /\ running = EmptyBag
  /\ now = 0
  /\ competition \in Competitions
  /\ async_scoring_enabled \in BOOLEAN
  /\ procCount = [s \in SubIds |-> 0]
  /\ termCount = [s \in SubIds |-> 0]
  /\ redelivered = 0
  /\ faults = 0
  /\ ev = Event("init", 0, "", "", None, 0, NoNotify)
  /\ request = NoCall
  /\ response = NoCall

\* the clock advances (while uploads are still to come; the steps of a job
\* do not read it, so it is advanced between jobs)
Tick ==
  /\ now < MaxTime
  /\ files < MaxSubs
  /\ queue = EmptyBag /\ running = EmptyBag
  /\ now' = now + 1
  /\ ev' = Event("tick", 0, "", "", None, 0, NoNotify)
  /\ UNCHANGED <<db, files, queue, running, competition,
                 async_scoring_enabled, procCount, termCount, redelivered,
                 faults, request, response>>

\* SubmissionRepository.count_today_by_user
count_today_by_user(user) ==
  Cardinality({s \in DOMAIN db : /\ db[s] # NoRow
                              /\ db[s].user_id = user
                              /\ Date(db[s].created_at) = Date(now)})

\* the intake guards with a daily limit that lets one upload too many through
IntakeRejects_OffByOne(user) ==
  \/ competition.status # "active"
  \/ now > competition.end_date
  \/ now < competition.start_date
  \/ count_today_by_user(user) > competition.daily_submission_limit

\* the intake guards of submit: status, deadline, start, daily limit
IntakeRejects(user) ==
  \/ competition.status # "active"
  \/ now > competition.end_date
  \/ now < competition.start_date
  \/ count_today_by_user(user) >= competition.daily_submission_limit

\* the object after a terminal result has been assigned to it
Scored(obj, pub, priv) ==
  [obj EXCEPT !.status = "SCORED", !.public_score = Some(pub),
              !.private_score = Some(priv), !.scored_at = Some("t")]

\* a failure that records the message but not the status
Failed_KeepsStatus(obj, msg) == [obj EXCEPT !.error_message = msg]

Failed(obj, msg) ==
  [obj EXCEPT !.status = "FAILED", !.error_message = msg]

\* SubmissionService._mock_score: two independent random draws
mock_score(obj) ==
  {[raised |-> FALSE, fault |-> 0, obj |-> Scored(obj, d[1], d[2]),
    calls |-> 1] : d \in MockDraws}

\* the result branch shared by both scoring paths: scorer.score(content)
\* returned a ScoringResult
ApplyResult(obj, result) ==
  IF result.success
    THEN Scored(obj, result.score[1], result.score[1])
    ELSE Failed(obj, result.error_message)

\* SubmissionService._score_submission: the outcomes of inline scoring.
\* create_scorer_for_competition runs before the try block and raises on an
\* unknown metric; scorer.score either returns a result or raises inside the
\* try block (a fault), which the except clause turns into FAILED.
score_submission(obj) ==
  IF competition.solution = "none" THEN mock_score(obj)
  ELSE IF ~competition.metric_known
    THEN {[raised |-> TRUE, fault |-> 0, obj |-> obj, calls |-> 0]}
  ELSE {[raised |-> FALSE, fault |-> 0, calls |-> 1,
         obj |-> ApplyResult(obj, ScorerScore(competition.solution,
                                              obj.content))],
        [raised |-> FALSE, fault |-> 1, calls |-> 1,
         obj |-> Failed(obj, ScoringError("exc"))]}

\* _send_scoring_notification: a notification carrying a terminal status,
\* unless the notification service raises (swallowed by the caller)
Notify(obj, nfail) ==
  IF obj.status \notin {"SCORED", "FAILED"} THEN NoNotify
  ELSE IF nfail THEN <<"failed", obj.status>>
  ELSE <<"sent", obj.status>>


\* the except clause of _send_scoring_notification: an exception of the
\* notification service is logged and the outcome of scoring stands
Notified_Propagates(o, nfail) ==
  IF nfail /\ ~o.raised
    THEN [o EXCEPT !.raised = TRUE,
                   !.obj = [o.obj EXCEPT !.status = "FAILED",
                              !.error_message = Some(<<"Scoring error: ",
                                                       "notify">>)]]
    ELSE o

Notified(o, nfail) == o

\* the message of score_submission_task.delay(submission.id)
Job(sid, retries) == [sid |-> sid, retries |-> retries]

\* a job queued for an object that has no primary key yet
queue_scoring_Unsaved(q, sid) == q (+) SetToBag({Job(0, 0)})

\* SubmissionService._queue_scoring
queue_scoring(q, sid) == q (+) SetToBag({Job(sid, 0)})

\* BaseRepository.get_by_id (session.get)
get_by_id(sid) == IF sid \in DOMAIN db THEN db[sid] ELSE [status |-> "ABSENT"]

\* the end of the request's transaction: the rows flushed by the request
\* become the stored rows
commit(table, sid, row) == [table EXCEPT ![sid] = row]

FreeIds == {s \in SubIds : db[s] = NoRow}

\* Jobs of different submissions touch different rows; the model takes the
\* next accepted upload when the jobs of the earlier ones have ended.
Idle == queue = EmptyBag /\ running = EmptyBag

\* the authenticated user of an upload request; users are interchangeable,
\* so the first upload is taken to be u1's
Uploaders == IF files = 0 THEN {"u1"} ELSE Users

\* SubmissionService.submit
Submit(user, content) ==
  /\ UNCHANGED <<running, now, competition, async_scoring_enabled,
                 procCount, termCount, redelivered, request, response>>
  /\ IF IntakeRejects(user)
       THEN /\ ev' = Event("submit", 0, user, "raised_intake", None, 0,
                           NoNotify)
            /\ UNCHANGED <<db, files, queue, faults>>
     ELSE IF ~PreValid(content)
       THEN /\ ev' = Event("submit", 0, user, "raised_invalid", None, 0,
                           NoNotify)
            /\ UNCHANGED <<db, files, queue, faults>>
     ELSE
       /\ FreeIds # {}
       /\ files < MaxSubs
       /\ Idle
       /\ LET sid == CHOOSE s \in FreeIds : \A x \in FreeIds : s <= x
              sub == NewSubmission(user, content, now)
          IN /\ files' = files + 1
             /\ IF async_scoring_enabled
                  THEN /\ db' = commit(db, sid, sub)
                       /\ queue' = queue_scoring(queue, sid)
                       /\ ev' = Event("submit", sid, user, "returned", None,
                                      0, NoNotify)
                       /\ UNCHANGED faults
                  ELSE \E o \in score_submission(sub), nfail \in BOOLEAN :
                         /\ faults + o.fault <= MaxFaults
                         /\ faults' = faults + o.fault
                         /\ UNCHANGED queue
                         /\ IF Notified(o, nfail).raised
                              THEN /\ ev' = Event("submit", 0, user,
                                                  "raised_scoring", None,
                                                  o.calls,
                                                  IF o.raised THEN NoNotify
                                                  ELSE Notify(o.obj, nfail))
                                   /\ UNCHANGED db
                              ELSE /\ db' = commit(db, sid, o.obj)
                                   /\ ev' = Event("submit", sid, user,
                                                  "returned",
                                                  o.obj.public_score,
                                                  o.calls,
                                                  Notify(o.obj, nfail))

\* a retry that allows one attempt too many
retry_OneMore(q, j) ==
  IF j.retries <= max_retries
    THEN q (+) SetToBag({[sid |-> j.sid, retries |-> j.retries + 1]})
    ELSE q

\* self.retry(exc=e) in score_submission_task: a new message with the retry
\* count raised by one, or the exception itself once max_retries is reached
retry(q, j) ==
  IF j.retries < max_retries
    THEN q (+) SetToBag({Job(j.sid, j.retries + 1)})
    ELSE q

\* the idempotency check, testing for the wrong status
AlreadyScored_WrongStatus(row) == row.status = "FAILED"

\* the idempotency check of _score_submission_async
AlreadyScored(row) == row.status = "SCORED"

\* score_submission_task starts on a delivered message; _score_submission_async
\* loads the submission and applies the idempotency check
Load(j) ==
  /\ BagIn(j, queue)
  /\ LET q == queue (-) SetToBag({j})
         row == get_by_id(j.sid)
     IN IF row = NoRow
          THEN /\ queue' = retry(q, j)
               /\ ev' = Event("load", j.sid, "", "not_found", None, 0, NoNotify)
               /\ UNCHANGED running
        ELSE IF AlreadyScored(row)
          THEN /\ queue' = q
               /\ ev' = Event("load", j.sid, "", "already_scored",
                              row.public_score, 0, NoNotify)
               /\ UNCHANGED running
        ELSE /\ queue' = q
             /\ running' = running (+)
                  SetToBag({[sid |-> j.sid, retries |-> j.retries,
                             pc |-> "loaded", obj |-> row]})
             /\ ev' = Event("load", j.sid, "", "started", None, 0, NoNotify)
  /\ UNCHANGED <<db, files, now, competition, async_scoring_enabled,
                 procCount, termCount, redelivered, faults, request,
                 response>>

\* at-least-once delivery: the message of an execution that has not been
\* acknowledged yet (task_acks_late) is delivered a second time
Redeliver(a) ==
  /\ BagIn(a, running)
  /\ redelivered < MaxRedeliver
  /\ redelivered' = redelivered + 1
  /\ queue' = queue (+) SetToBag({Job(a.sid, a.retries)})
  /\ ev' = Event("redeliver", a.sid, "", "", None, 0, NoNotify)
  /\ UNCHANGED <<db, files, running, now, competition,
                 async_scoring_enabled, procCount, termCount, faults,
                 request, response>>

Terminal(st) == st \in {"SCORED", "FAILED"}

\* history of the status column of one row across an UPDATE
CountProc(s, old, new) ==
  IF new.status = "PROCESSING" /\ old.status # "PROCESSING"
    THEN [procCount EXCEPT ![s] = IF @ < 2 THEN @ + 1 ELSE @]
    ELSE procCount

CountTerm(s, old, new) ==
  IF Terminal(new.status) /\ old.status # new.status
    THEN [termCount EXCEPT ![s] = IF @ < 2 THEN @ + 1 ELSE @]
    ELSE termCount

\* submission.status = PROCESSING; repo.update (flush, refresh); commit
MarkProcessing(a) ==
  /\ BagIn(a, running)
  /\ a.pc = "loaded"
  /\ LET row == Flush(db[a.sid], a.obj, [status |-> "PROCESSING"])
     IN /\ db' = [db EXCEPT ![a.sid] = row]
        /\ running' = (running (-) SetToBag({a})) (+)
                         SetToBag({[a EXCEPT !.pc = "processing",
                                             !.obj = row]})
        /\ procCount' = CountProc(a.sid, db[a.sid], row)
        /\ termCount' = CountTerm(a.sid, db[a.sid], row)
  /\ ev' = Event("processing", a.sid, "", "", None, 0, NoNotify)
  /\ UNCHANGED <<files, queue, now, competition, async_scoring_enabled,
                 redelivered, faults, request, response>>

\* the try block of _score_submission_async up to the assignments: what is
\* assigned to the loaded object, whether an exception was raised, and how
\* often scoring ran.  storage.load raises (a fault), the scorer is absent
\* (mock scoring), create_scorer_for_competition raises on an unknown
\* metric, scorer.score raises (a fault) or returns a result.
TaskOutcomes(obj) ==
  {[raised |-> TRUE, fault |-> 1, calls |-> 0,
    obj |-> Failed(obj, ScoringError("exc"))]}
  \cup
  (IF competition.solution = "none" THEN mock_score(obj)
   ELSE IF ~competition.metric_known
     THEN {[raised |-> TRUE, fault |-> 0, calls |-> 0,
            obj |-> Failed(obj, ScoringError("exc"))]}
   ELSE {[raised |-> FALSE, fault |-> 0, calls |-> 1,
          obj |-> ApplyResult(obj, ScorerScore(competition.solution,
                                               obj.content))],
         [raised |-> TRUE, fault |-> 1, calls |-> 1,
          obj |-> Failed(obj, ScoringError("exc"))]})

\* the rest of _score_submission_async and the retry of score_submission_task:
\* score, persist the terminal state, notify and return; or, on an exception,
\* persist FAILED, re-raise and retry
ScoreAndPersist(a) ==
  /\ BagIn(a, running)
  /\ a.pc = "processing"
  /\ \E o \in TaskOutcomes(a.obj), nfail \in BOOLEAN :
       LET end == Notified(o, nfail)
           row == Flush(db[a.sid], a.obj, end.obj)
       IN /\ faults + o.fault <= MaxFaults
          /\ faults' = faults + o.fault
          /\ db' = [db EXCEPT ![a.sid] = row]
          /\ procCount' = CountProc(a.sid, db[a.sid], row)
          /\ termCount' = CountTerm(a.sid, db[a.sid], row)
          /\ running' = running (-) SetToBag({a})
          /\ IF end.raised
               THEN /\ queue' = retry(queue, Job(a.sid, a.retries))
                    /\ ev' = Event("task", a.sid, "", "raised", None,
                                   o.calls,
                                   IF o.raised THEN NoNotify
                                   ELSE Notify(o.obj, nfail))
               ELSE /\ queue' = queue
                    /\ ev' = Event("task", a.sid, "", row.status,
                                   row.public_score, o.calls,
                                   Notify(row, nfail))
  /\ UNCHANGED <<files, now, competition, async_scoring_enabled,
                 redelivered, request, response>>

Next ==
  \/ Tick
  \/ \E u \in Uploaders, c \in Contents : Submit(u, c)
  \/ \E j \in BagToSet(queue) : Load(j)
  \/ \E a \in BagToSet(running) : Redeliver(a)
  \/ \E a \in BagToSet(running) : MarkProcessing(a)
  \/ \E a \in BagToSet(running) : ScoreAndPersist(a)

Spec == Init /\ [][Next]_vars

\* delivered jobs are run, and a run that has begun takes its next step
LiveSpec ==
  /\ Init /\ [][Next]_vars
  /\ WF_vars(\E j \in BagToSet(queue) : Load(j))
  /\ WF_vars(\E a \in BagToSet(running) : MarkProcessing(a))
  /\ WF_vars(\E a \in BagToSet(running) : ScoreAndPersist(a))

\* ------------------------------------------------------------ leaderboard
\* SubmissionService.get_leaderboard as a function of the submissions table,
\* the competition and the limit.

\* Submission.created_at of the rows of a table
CreatedAt == {1, 2}

\* the rows a table can hold: scored, waiting, in progress, failed, and rows
\* whose status was overwritten after they had been scored
TableRows ==
  {Scored(NewSubmission(u, "ok", t), p, p) :
     u \in Users, t \in CreatedAt, p \in Scores}
  \cup {[NewSubmission(u, "ok", t) EXCEPT !.status = st] :
          u \in Users, t \in CreatedAt, st \in {"PENDING", "PROCESSING"}}
  \cup {Failed(NewSubmission(u, "ok", t), ScoringError("exc")) :
          u \in Users, t \in CreatedAt}
  \cup {[Scored(NewSubmission(u, "ok", t), 2, 2) EXCEPT !.status = "PROCESSING"] :
          u \in Users, t \in CreatedAt}
  \cup {Failed(Scored(NewSubmission(u, "ok", t), 2, 2), ScoringError("exc")) :
          u \in Users, t \in CreatedAt}

\* a number for each row; a table is an unordered collection of rows, so the
\* tables are listed with their rows in the order of these numbers
RowKey(r) ==
  LET user == IF r.user_id = "u1" THEN 0 ELSE 1
      st == CASE r.status = "PENDING" -> 0
              [] r.status = "PROCESSING" -> 1
              [] r.status = "SCORED" -> 2
              [] OTHER -> 3
      score == IF r.public_score = None THEN 0 ELSE r.public_score[1]
  IN ((user * 2 + (r.created_at - 1)) * 4 + st) * 3 + score

Tables ==
  {t \in [1..MaxRows -> TableRows] :
     \A i \in 1..(MaxRows - 1) : RowKey(t[i]) <= RowKey(t[i + 1])}

\* Competition.evaluation_metric and Competition.max_team_size, with the
\* team of each user in a team competition (TeamMember)
LbCompetitions ==
  {c \in [evaluation_metric : {"accuracy", "RMSE"},
          max_team_size : {1, 2},
          team_of : [Users -> {"none", "t1", "t2"}]] :
     /\ c.max_team_size = 1 => \A u \in Users : c.team_of[u] = "none"
     /\ c.max_team_size > 1 =>
          (c.team_of["u1"] = "t1" /\ c.team_of["u2"] \in {"t1", "t2"})}

\* LOWER_IS_BETTER
LOWER_IS_BETTER == {"rmse", "mae"}

\* metric_name.lower().replace("-", "_")
normalized(metric_name) ==
  CASE metric_name = "RMSE" -> "rmse"
    [] metric_name = "MAE" -> "mae"
    [] metric_name = "auc-roc" -> "auc_roc"
    [] OTHER -> metric_name

\* a direction test that never says lower is better
is_lower_better_Never(metric_name) == FALSE

is_lower_better(metric_name) == normalized(metric_name) \in LOWER_IS_BETTER

SetMin(S) == CHOOSE x \in S : \A y \in S : x <= y
SetMax(S) == CHOOSE x \in S : \A y \in S : y <= x

\* a filter on the score column instead of the status column
ScoredOf_WithScore(table, u) ==
  {i \in DOMAIN table : table[i].public_score # None
                          /\ table[i].user_id = u}

\* .where(status == SCORED).group_by(user_id): the rows of one group
ScoredOf(table, u) ==
  {i \in DOMAIN table : table[i].status = "SCORED" /\ table[i].user_id = u}

\* func.min / func.max(Submission.public_score)
best_score_agg(table, metric, u) ==
  LET S == {table[i].public_score[1] : i \in ScoredOf(table, u)}
  IN IF is_lower_better(metric) THEN SetMin(S) ELSE SetMax(S)

\* the tie-break column taken from the latest submission
first_submission_Latest(table, u) ==
  SetMax({table[i].created_at : i \in ScoredOf(table, u)})

\* func.min(Submission.created_at)
first_submission(table, u) ==
  SetMin({table[i].created_at : i \in ScoredOf(table, u)})

\* func.max(Submission.created_at)
last_submission(table, u) ==
  SetMax({table[i].created_at : i \in ScoredOf(table, u)})

\* one row of the grouped SELECT
GroupRow(table, metric, u) ==
  [user_id |-> u,
   best_score |-> best_score_agg(table, metric, u),
   submission_count |-> Cardinality(ScoredOf(table, u)),
   last_submission |-> last_submission(table, u),
   first_submission |-> first_submission(table, u)]

\* ORDER BY best_score (asc or desc), min(created_at) asc: x sorts strictly
\* before y
OrderedBefore(metric, x, y) ==
  \/ IF is_lower_better(metric) THEN x.best_score < y.best_score
                                 ELSE x.best_score > y.best_score
  \/ x.best_score = y.best_score /\ x.first_submission < y.first_submission

\* the results the statement can return: the groups in any order that
\* respects ORDER BY (rows equal in both columns come in either order), cut
\* at LIMIT
Statement(table, metric, limit) ==
  LET G == {GroupRow(table, metric, u) :
              u \in {v \in Users : ScoredOf(table, v) # {}}}
      n == Cardinality(G)
      m == IF limit < n THEN limit ELSE n
  IN {SubSeq(q, 1, m) :
        q \in {r \in [1..n -> G] :
                 \A i \in 1..n, j \in 1..n :
                   i < j => (r[i] # r[j]
                             /\ ~OrderedBefore(metric, r[j], r[i]))}}

\* an enumeration that counts from one less
enumerate_OffByOne(rows, start) ==
  [i \in 1..Len(rows) |-> [rank |-> start + i - 2, row |-> rows[i]]]

\* enumerate(rows, 1)
enumerate(rows, start) ==
  [i \in 1..Len(rows) |-> [rank |-> start + i - 1, row |-> rows[i]]]

\* the entries built by get_leaderboard; the user of every row exists
\* (submissions.user_id references users.id)
get_leaderboard(table, comp, limit) ==
  {[i \in 1..Len(rows) |->
      LET e == enumerate(rows, 1)[i]
      IN [rank |-> e.rank,
          user_id |-> e.row.user_id,
          best_score |-> e.row.best_score,
          submission_count |-> e.row.submission_count,
          last_submission |-> e.row.last_submission]] :
     rows \in Statement(table, comp.evaluation_metric, limit)}

\* the limit parameter of the leaderboard route
Limits == {1, 2}

LbInit ==
  /\ db \in Tables
  /\ competition \in LbCompetitions
  /\ files = 0
  /\ queue = EmptyBag
  /\ running = EmptyBag
  /\ now = 0
  /\ async_scoring_enabled = FALSE
  /\ procCount = [s \in SubIds |-> 0]
  /\ termCount = [s \in SubIds |-> 0]
  /\ redelivered = 0
  /\ faults = 0
  /\ ev = Event("init", 0, "", "", None, 0, NoNotify)
  /\ request = NoCall
  /\ response = NoCall

\* GET /competitions/{slug}/leaderboard
GetLeaderboard(limit) ==
  /\ \E entries \in get_leaderboard(db, competition, limit) :
       response' = [entries |-> entries,
                    total_participants |-> Len(entries)]
  /\ request' = [op |-> "get_leaderboard", limit |-> limit]
  /\ UNCHANGED <<db, files, queue, running, now, competition,
                 async_scoring_enabled, procCount, termCount, redelivered,
                 faults, ev>>

LbNext == \E limit \in Limits : GetLeaderboard(limit)

LbSpec == LbInit /\ [][LbNext]_vars

\* ------------------------------------------------------------- validation
\* validate_submission as a function of the file and its keyword arguments.
\* Every byte string decodes as Latin-1, so the decoded text is the input.

\* a field that a short row does not have (DictReader's restval, None)
Missing == "<missing>"

IdCells == {"a", "b", " a", ""}
PredictionCells == {"0", "1", "2", "x", "", "nan", Missing}

CsvRows == [id : IdCells, prediction : PredictionCells]

\* the rows of a file with the given header: row.get(column, "") is "" for a
\* column the header does not have
RowsOf(header) ==
  {row \in CsvRows : /\ "id" \notin header => row.id = ""
                     /\ "prediction" \notin header => row.prediction = ""}

\* a file: whether csv can read its header, the required columns the header
\* has, and its data rows
CsvContents ==
  {[readable |-> FALSE, header |-> {}, rows |-> <<>>]}
  \cup UNION {{[readable |-> TRUE, header |-> h, rows |-> r] :
                  r \in UNION {[1..n -> RowsOf(h)] : n \in 0..MaxCsvRows}} :
                h \in SUBSET {"id", "prediction"}}

\* an expected-id list with more than five ids that a file of MaxCsvRows
\* rows cannot cover
ManyIds == {"a", "c", "d", "e", "f", "g", "h"}

\* the keyword arguments: expected_ids, value_min and value_max (both or
\* neither), value_type
ValidationCalls ==
  [content : CsvContents,
   expected_ids : {None, Some({"a"}), Some(ManyIds)},
   bounds : {None, Some(<<1, 1>>)},
   value_type : {"float", "binary"}]

\* str.strip()
strip(cell) == IF cell = " a" THEN "a" ELSE cell

\* Python floats: a number or NaN
Num(n) == [nan |-> FALSE, v |-> n]
NaN == [nan |-> TRUE, v |-> 0]

\* a comparison that also holds for equal numbers
Lt_OrEqual(x, y) == ~x.nan /\ ~y.nan /\ x.v <= y.v

\* x < y on floats: false whenever one side is NaN
Lt(x, y) == ~x.nan /\ ~y.nan /\ x.v < y.v

\* float(pred_str)
ParseFloat(str) ==
  CASE str = "0" -> [ok |-> TRUE, value |-> Num(0)]
    [] str = "1" -> [ok |-> TRUE, value |-> Num(1)]
    [] str = "2" -> [ok |-> TRUE, value |-> Num(2)]
    [] str = "nan" -> [ok |-> TRUE, value |-> NaN]
    [] OTHER -> [ok |-> FALSE, value |-> NaN]

\* int(float(pred_str)) for "int" and "binary", float(pred_str) otherwise;
\* int() of NaN raises ValueError
ParseValue(value_type, str) ==
  LET f == ParseFloat(str)
  IN IF value_type \in {"int", "binary"} /\ f.ok /\ f.value.nan
       THEN [ok |-> FALSE, value |-> NaN]
       ELSE f

\* ValidationError(code, message, field, row); of the message, the number
\* of ids it counts, the number it lists and whether it ends in "..."
Err(code, field, row) ==
  [code |-> code, field |-> field, row |-> row,
   total |-> 0, shown |-> 0, more |-> FALSE]

\* a summary that lists every id
Summary_ListsAll(code, ids) ==
  [code |-> code, field |-> "id", row |-> 0,
   total |-> Cardinality(ids), shown |-> Cardinality(ids), more |-> FALSE]

\* list(ids)[:5] and the "..." that follows when more than five are left out
Summary(code, ids) ==
  [code |-> code, field |-> "id", row |-> 0,
   total |-> Cardinality(ids),
   shown |-> IF Cardinality(ids) > 5 THEN 5 ELSE Cardinality(ids),
   more |-> Cardinality(ids) > 5]

\* one pass of the loop body for data row k (row number k + 1)
ScanRow(call, k, st) ==
  LET row == call.content.rows[k]
      row_num == k + 1
      counted == [st EXCEPT !.row_count = @ + 1]
      row_id == strip(row.id)
  IN IF row_id = ""
       THEN [counted EXCEPT !.errors = Append(@, Err("EMPTY_ID", "id", row_num))]
     ELSE
       LET dup == IF row_id \in st.seen_ids
                    THEN <<Err("DUPLICATE_ID", "id", row_num)>> ELSE <<>>
           seen == [counted EXCEPT !.errors = @ \o dup,
                                   !.seen_ids = @ \cup {row_id}]
       IN IF row.prediction = Missing
            THEN [seen EXCEPT !.raised = TRUE]
          ELSE IF strip(row.prediction) = ""
            THEN [seen EXCEPT !.errors = Append(@, Err("EMPTY_VALUE",
                                        "prediction", row_num))]
          ELSE
            LET parsed == ParseValue(call.value_type, strip(row.prediction))
                pred_value == parsed.value
                low == IF call.bounds # None
                          /\ Lt(pred_value, Num(call.bounds[1][1]))
                         THEN <<Err("VALUE_OUT_OF_RANGE", "prediction", row_num)>>
                         ELSE <<>>
                high == IF call.bounds # None
                           /\ Lt(Num(call.bounds[1][2]), pred_value)
                          THEN <<Err("VALUE_OUT_OF_RANGE", "prediction", row_num)>>
                          ELSE <<>>
                binary == IF call.value_type = "binary"
                             /\ pred_value \notin {Num(0), Num(1)}
                            THEN <<Err("INVALID_BINARY", "prediction", row_num)>>
                            ELSE <<>>
            IN IF ~parsed.ok
                 THEN [seen EXCEPT !.errors = Append(@, Err("INVALID_VALUE",
                                        "prediction", row_num))]
                 ELSE [seen EXCEPT !.errors = @ \o low \o high \o binary,
                                   !.ids = Append(@, row_id),
                                   !.values = Append(@, pred_value)]

\* for row_num, row in enumerate(reader, start=2), until an exception
RECURSIVE ScanRows(_, _, _)
ScanRows(call, k, st) ==
  IF st.raised \/ k > Len(call.content.rows) THEN st
  ELSE ScanRows(call, k + 1, ScanRow(call, k, st))

\* valid=len(errors) == 0
Verdict(st) == Len(st.errors) = 0

\* a header check that looks for the id column only
MissingColumns_IdOnly(headers) ==
  IF "id" \in headers THEN <<>> ELSE <<Err("MISSING_COLUMN", "id", 0)>>

\* one MISSING_COLUMN for each required column that is not in the header
MissingColumns(headers) ==
  (IF "id" \in headers THEN <<>> ELSE <<Err("MISSING_COLUMN", "id", 0)>>)
  \o (IF "prediction" \in headers THEN <<>>
      ELSE <<Err("MISSING_COLUMN", "prediction", 0)>>)

\* validate_submission: the ValidationResult, or raised when an exception
\* leaves the function
validate_submission(call) ==
  LET empty == [raised |-> FALSE, errors |-> <<>>, ids |-> <<>>,
                values |-> <<>>, seen_ids |-> {}, row_count |-> 0]
      Result(st) == [raised |-> st.raised, valid |-> Verdict(st),
                     errors |-> st.errors, ids |-> st.ids,
                     values |-> st.values, row_count |-> st.row_count]
      columns == MissingColumns(call.content.header)
  IN IF ~call.content.readable
       THEN Result([empty EXCEPT !.errors = <<Err("CSV_PARSE_ERROR", "", 0)>>])
     ELSE IF columns # <<>>
       THEN Result([empty EXCEPT !.errors = columns])
     ELSE
       LET scanned == ScanRows(call, 1, empty)
           missing_ids == IF call.expected_ids # None
                             /\ call.expected_ids[1] \ scanned.seen_ids # {}
                            THEN <<Summary("MISSING_IDS",
                                           call.expected_ids[1]
                                             \ scanned.seen_ids)>>
                            ELSE <<>>
           extra_ids == IF call.expected_ids # None
                           /\ scanned.seen_ids \ call.expected_ids[1] # {}
                          THEN <<Summary("EXTRA_IDS",
                                         scanned.seen_ids
                                           \ call.expected_ids[1])>>
                          ELSE <<>>
           empty_file == IF scanned.row_count = 0
                           THEN <<Err("EMPTY_FILE", "", 0)>> ELSE <<>>
       IN IF scanned.raised THEN Result(scanned)
          ELSE Result([scanned EXCEPT
                         !.errors = @ \o missing_ids \o extra_ids
                                      \o empty_file])

ValInit ==
  /\ request \in {[op |-> "validate_submission", call |-> c] :
                    c \in ValidationCalls}
  /\ response = NoCall
  /\ db = [s \in SubIds |-> NoRow]
  /\ competition \in {c \in Competitions : c.status = "draft"}
  /\ files = 0
  /\ queue = EmptyBag
  /\ running = EmptyBag
  /\ now = 0
  /\ async_scoring_enabled = FALSE
  /\ procCount = [s \in SubIds |-> 0]
  /\ termCount = [s \in SubIds |-> 0]
  /\ redelivered = 0
  /\ faults = 0
  /\ ev = Event("init", 0, "", "", None, 0, NoNotify)

\* a call of validate_submission with the arguments of the request
Validate ==
  /\ response = NoCall
  /\ response' = validate_submission(request.call)
  /\ UNCHANGED <<db, files, queue, running, now, competition,
                 async_scoring_enabled, procCount, termCount, redelivered,
                 faults, ev, request>>

ValNext == Validate

ValSpec == ValInit /\ [][ValNext]_vars

\* ---------------------------------------------------------------- metrics
MaxPairs == 4         \* length of the lists given to a metric function
MaxHandlers == 3      \* submit requests handled at the same time
MaxTeams == 2         \* teams created in one behaviour

\* round(n / d, 6) in millionths; no quotient with d below 128 lies halfway
\* between two millionths
round6(n, d) == (2 * n * 1000000 + d) \div (2 * d)

\* raise ValueError(...)
Raise(error) == [raised |-> TRUE, error |-> error, value |-> 0]

\* return value
Return(value) == [raised |-> FALSE, error |-> "", value |-> value]

\* sum(actuals)
RECURSIVE sum(_)
sum(xs) == IF xs = <<>> THEN 0 ELSE Head(xs) + sum(Tail(xs))

\* zip(predictions, actuals)
zip(xs, ys) ==
  [i \in 1..(IF Len(xs) < Len(ys) THEN Len(xs) ELSE Len(ys)) |->
     <<xs[i], ys[i]>>]

\* an insertion that puts a pair before the pairs of equal prediction
RECURSIVE InsertPair_BeforeEqual(_, _)
InsertPair_BeforeEqual(paired, e) ==
  IF paired = <<>> THEN <<e>>
  ELSE IF ~Lt(e[1], Head(paired)[1]) THEN <<e>> \o paired
  ELSE <<Head(paired)>> \o InsertPair_BeforeEqual(Tail(paired), e)

\* one step of the stable sort by key -prediction: the pair goes before the
\* first pair whose prediction is lower, behind the pairs of equal prediction
RECURSIVE InsertPair(_, _)
InsertPair(paired, e) ==
  IF paired = <<>> THEN <<e>>
  ELSE IF Lt(Head(paired)[1], e[1]) THEN <<e>> \o paired
  ELSE <<Head(paired)>> \o InsertPair(Tail(paired), e)

\* sorted(pairs, key=lambda x: -x[0]); for a NaN key this is the order
\* Python gives for up to two pairs
RECURSIVE sorted(_)
sorted(pairs) ==
  IF pairs = <<>> THEN <<>>
  ELSE InsertPair(sorted(SubSeq(pairs, 1, Len(pairs) - 1)),
                  pairs[Len(pairs)])

\* the scan of calculate_auc_roc: <<auc, cum_pos>> after the pairs given
RECURSIVE ScanPairs(_)
ScanPairs(paired) ==
  IF paired = <<>> THEN <<0, 0>>
  ELSE LET before == ScanPairs(SubSeq(paired, 1, Len(paired) - 1))
           actual == paired[Len(paired)][2]
       IN IF actual = 1 THEN <<before[1], before[2] + 1>>
          ELSE <<before[1] + before[2], before[2]>>

calculate_auc_roc(predictions, actuals) ==
  IF Len(predictions) # Len(actuals) THEN Raise("ValueError")
  ELSE IF Len(predictions) = 0 THEN Raise("ValueError")
  ELSE
    LET paired == sorted(zip(predictions, actuals))
        n_pos == sum(actuals)
        n_neg == Len(actuals) - n_pos
    IN IF n_pos = 0 \/ n_neg = 0 THEN Raise("ValueError")
       ELSE Return(round6(ScanPairs(paired)[1], n_pos * n_neg))

calculate_accuracy(predictions, actuals) ==
  IF Len(predictions) # Len(actuals) THEN Raise("ValueError")
  ELSE IF Len(predictions) = 0 THEN Raise("ValueError")
  ELSE LET correct == Cardinality({i \in 1..Len(predictions) :
                                     predictions[i] = Num(actuals[i])})
       IN Return(round6(correct, Len(predictions)))

\* METRIC_FUNCTIONS, two of its entries
metric_fn(metric, predictions, actuals) ==
  IF metric = "auc_roc" THEN calculate_auc_roc(predictions, actuals)
  ELSE calculate_accuracy(predictions, actuals)

\* the lists a metric function is called with: predictions that are numbers
\* and binary labels, of equal length or with one label short
MetricInputs ==
  LET Lists(S) == UNION {[1..n -> S] : n \in 0..MaxPairs}
      equal == {[predictions |-> [i \in DOMAIN ps |-> Num(ps[i][1])],
                 actuals |-> [i \in DOMAIN ps |-> ps[i][2]]] :
                  ps \in Lists({1, 2, 3} \X {0, 1})}
  IN equal \cup {[predictions |-> c.predictions,
                  actuals |-> Tail(c.actuals)] :
                   c \in {e \in equal : Len(e.actuals) > 0}}

AucInit ==
  /\ request \in {[op |-> "calculate_auc_roc",
                    predictions |-> c.predictions, actuals |-> c.actuals] :
                     c \in MetricInputs}
  /\ response = NoCall
  /\ db = [s \in SubIds |-> NoRow]
  /\ competition \in {c \in Competitions : c.status = "draft"}
  /\ files = 0
  /\ queue = EmptyBag
  /\ running = EmptyBag
  /\ now = 0
  /\ async_scoring_enabled = FALSE
  /\ procCount = [s \in SubIds |-> 0]
  /\ termCount = [s \in SubIds |-> 0]
  /\ redelivered = 0
  /\ faults = 0
  /\ ev = Event("init", 0, "", "", None, 0, NoNotify)

\* a call of calculate_auc_roc with the lists of the request
CalculateAucRoc ==
  /\ response = NoCall
  /\ response' = calculate_auc_roc(request.predictions, request.actuals)
  /\ UNCHANGED <<db, files, queue, running, now, competition,
                 async_scoring_enabled, procCount, termCount, redelivered,
                 faults, ev, request>>

AucNext == CalculateAucRoc

AucSpec == AucInit /\ [][AucNext]_vars

\* ----------------------------------------------------------------- scorer
\* Solution files: absent, or a CSV of the columns id and target, held in
\* the row field "prediction"; up to one row for each id, then one more
SolutionIds == {"a", "b"}

SolutionFiles ==
  {[exists |-> e,
    content |-> [readable |-> TRUE, header |-> {"id", "prediction"},
                 rows |-> r]] :
     e \in BOOLEAN,
     r \in UNION {[1..n -> [id : SolutionIds, prediction : {"0", "1"}]] :
                    n \in 0..Cardinality(SolutionIds)}}

\* load_solution_file: the id -> target mapping in file order, or ValueError
load_solution_file(content) ==
  LET result == validate_submission([content |-> content,
                                     expected_ids |-> None,
                                     bounds |-> None,
                                     value_type |-> "float"])
  IN IF result.raised THEN Raise("AttributeError")
     ELSE IF ~result.valid THEN Raise("ValueError")
     ELSE Return(zip(result.ids, result.values))

\* Scorer._load_solution
load_solution(file) ==
  IF ~file.exists THEN Raise("FileNotFoundError")
  ELSE load_solution_file(file.content)

\* metric_configs of create_scorer_for_competition
metric_configs(metric) ==
  IF metric = "auc_roc"
    THEN [bounds |-> Some(<<0, 1>>), value_type |-> "float"]
    ELSE [bounds |-> None, value_type |-> "int"]

\* ScoringResult, with the lists the metric was called with, if it was
ScoringResult(success, score, error_message, metric_call) ==
  [raised |-> FALSE, success |-> success, score |-> score,
   error_message |-> error_message, metric_call |-> metric_call]

\* an exception that leaves Scorer.score
Escapes(metric_call) ==
  [raised |-> TRUE, success |-> FALSE, score |-> None,
   error_message |-> None, metric_call |-> metric_call]

\* an alignment that follows the order of the submission's rows
Align_SubmissionOrder(solution, submission_ids, submission_preds) ==
  LET target(id) ==
        solution[CHOOSE j \in 1..Len(solution) : solution[j][1] = id][2]
      InSolution(i) == \E j \in 1..Len(solution) :
                         solution[j][1] = submission_ids[i]
      idx == {i \in 1..Len(submission_ids) : InSolution(i)}
      nth(k) == CHOOSE i \in idx : Cardinality({j \in idx : j <= i}) = k
  IN [predictions |-> [k \in 1..Cardinality(idx) |->
                         submission_preds[nth(k)]],
      actuals |-> [k \in 1..Cardinality(idx) |->
                     target(submission_ids[nth(k)]).v]]

\* pred_lookup = dict(zip(ids, preds)) and the loop over solution.items()
Align(solution, submission_ids, submission_preds) ==
  LET n == IF Len(submission_ids) < Len(submission_preds)
             THEN Len(submission_ids) ELSE Len(submission_preds)
      keys == {submission_ids[i] : i \in 1..n}
      pred_lookup == [id \in keys |->
                        submission_preds[CHOOSE i \in 1..n :
                           /\ submission_ids[i] = id
                           /\ \A j \in (i + 1)..n : submission_ids[j] # id]]
      Found(e) == e[1] \in keys
      kept == SelectSeq(solution, Found)
  IN [predictions |-> [k \in 1..Len(kept) |-> pred_lookup[kept[k][1]]],
      actuals |-> [k \in 1..Len(kept) |-> kept[k][2].v]]

\* an except clause that catches nothing
Caught_Nothing(error) == FALSE

\* except ValueError around the metric call
Caught(error) == error = "ValueError"

\* Scorer.score from the result of the metric call on
ScoreMetric(m, lists) ==
  IF m.raised
    THEN IF Caught(m.error)
           THEN ScoringResult(FALSE, None, ScoringError("metric"),
                              Some(lists))
           ELSE Escapes(Some(lists))
    ELSE ScoringResult(TRUE, Some(m.value), None, Some(lists))

\* Scorer.score from the aligned lists on: the metric call
ScoreAligned(metric, lists) ==
  ScoreMetric(metric_fn(metric, lists.predictions, lists.actuals), lists)

\* Scorer.score from the validation result on
ScoreValidated(solution, metric, validation) ==
  IF validation.raised THEN Escapes(None)
  ELSE IF ~validation.valid
    THEN ScoringResult(FALSE, None, Some(<<"", "validation">>), None)
  ELSE ScoreAligned(metric,
                    Align(solution, validation.ids, validation.values))

\* Scorer.score from the loaded solution on: validation against its ids
\* under the constraints of the metric
ScoreLoaded(solution, config, metric, submission_content) ==
  ScoreValidated(
    solution, metric,
    validate_submission(
      [content |-> submission_content,
       expected_ids |-> Some({solution[i][1] : i \in 1..Len(solution)}),
       bounds |-> config.bounds,
       value_type |-> config.value_type]))

\* Scorer.score from the outcome of _load_solution on
ScoreSolution(loaded, metric, submission_content) ==
  IF loaded.raised
    THEN IF loaded.error \in {"FileNotFoundError", "ValueError"}
           THEN ScoringResult(FALSE, None,
                              Some(<<"Solution file error: ", loaded.error>>),
                              None)
           ELSE Escapes(None)
    ELSE ScoreLoaded(loaded.value, metric_configs(metric), metric,
                     submission_content)

\* Scorer.score
Scorer_score(file, metric, submission_content) ==
  ScoreSolution(load_solution(file), metric, submission_content)

\* the try block of SubmissionService._score_submission around scorer.score
TryScore(obj, result) ==
  IF result.raised THEN Failed(obj, ScoringError("exc"))
  ELSE ApplyResult(obj, result)

\* the result of scorer.score and the new submission it is applied to
Scored_by(result) ==
  [result |-> result,
   submission |-> TryScore(NewSubmission("u1", "ok", 0), result)]

\* the submission files given to the scorer: readable, with both columns
ScorerSubmissions ==
  {[readable |-> TRUE, header |-> {"id", "prediction"}, rows |-> r] :
     r \in UNION {[1..n -> [id : {"a", "b", " a"},
                            prediction : {"0", "1", "nan", "x"}]] :
                    n \in 0..MaxCsvRows}}

ScorerInit ==
  /\ request \in {[op |-> "score", solution_file |-> f, metric |-> m,
                     content |-> c] :
                      f \in SolutionFiles, m \in {"auc_roc", "accuracy"},
                      c \in ScorerSubmissions}
  /\ response = NoCall
  /\ db = [s \in SubIds |-> NoRow]
  /\ competition \in {c \in Competitions : c.status = "draft"}
  /\ files = 0
  /\ queue = EmptyBag
  /\ running = EmptyBag
  /\ now = 0
  /\ async_scoring_enabled = FALSE
  /\ procCount = [s \in SubIds |-> 0]
  /\ termCount = [s \in SubIds |-> 0]
  /\ redelivered = 0
  /\ faults = 0
  /\ ev = Event("init", 0, "", "", None, 0, NoNotify)

\* scorer.score(content) inside _score_submission, for a new submission
Score ==
  /\ response = NoCall
  /\ response' = Scored_by(Scorer_score(request.solution_file,
                                        request.metric, request.content))
  /\ UNCHANGED <<db, files, queue, running, now, competition,
                 async_scoring_enabled, procCount, termCount, redelivered,
                 faults, ev, request>>

ScorerNext == Score

ScorerSpec == ScorerInit /\ [][ScorerNext]_vars

\* ---------------------------------------------------------------- storage
\* Strings are sequences of tokens: "/" and the names between slashes.
Slash == <<"/">>

\* str.startswith(prefix)
startswith(str, prefix) ==
  Len(str) >= Len(prefix) /\ SubSeq(str, 1, Len(prefix)) = prefix

\* str.split(sep): the pieces between the occurrences of sep, found from the
\* left without overlap
RECURSIVE split(_, _)
split(str, sep) ==
  LET hits == {i \in 1..(Len(str) - Len(sep) + 1) :
                 SubSeq(str, i, i + Len(sep) - 1) = sep}
  IN IF hits = {} THEN <<str>>
     ELSE LET i == SetMin(hits)
          IN <<SubSeq(str, 1, i - 1)>>
             \o split(SubSeq(str, i + Len(sep), Len(str)), sep)

\* "/".join(parts)
RECURSIVE join(_)
join(parts) ==
  IF parts = <<>> THEN <<>>
  ELSE IF Len(parts) = 1 THEN parts[1]
  ELSE parts[1] \o Slash \o join(Tail(parts))

\* settings: the backend and its bucket or base directory (as Path keeps it)
StorageSettings ==
  {[storage_backend |-> "s3", root |-> <<b>>] :
     b \in {"daggle", "submissions"}}
  \cup {[storage_backend |-> "local", root |-> d] :
          d \in {<<"/", "tmp", "/", "uploads">>,
                 <<"/", "data", "/", "submissions", "/", "store">>,
                 <<"/", "data", "/", "submissions">>,
                 <<"uploads">>}}

\* the uploads: competition id, user id and the name of the uploaded file
Uploads ==
  [competition_id : {"1", "2"}, user_id : {"1", "2"},
   filename : {"preds.csv", "preds.txt", "preds"}]

\* _save_file: submissions/<competition_id>/<user_id>/<uuid>.<ext>
storage_key(upload) ==
  <<"submissions", "/", upload.competition_id, "/", upload.user_id, "/",
    IF upload.filename = "preds.txt" THEN "uuid.txt" ELSE "uuid.csv">>

\* where a backend keeps the object of a key, which is also the locator
\* that save returns: s3://<bucket>/<key> or str(base_dir / key)
Locator(settings, key) ==
  IF settings.storage_backend = "s3"
    THEN <<"s3:", "/", "/">> \o settings.root \o Slash \o key
    ELSE settings.root \o Slash \o key

\* the key the scoring task takes from submission.file_path
extract_key(file_path) ==
  IF startswith(file_path, <<"s3:", "/", "/">>)
    THEN LET parts == split(file_path, Slash)
         IN join(SubSeq(parts, 4, Len(parts)))
  ELSE IF startswith(file_path, Slash)
    THEN LET parts == split(file_path, <<"/", "submissions", "/">>)
         IN IF Len(parts) > 1
              THEN <<"submissions", "/">> \o parts[Len(parts)]
              ELSE file_path
  ELSE file_path

StorageInit ==
  /\ request \in [op : {"upload"}, settings : StorageSettings,
                   upload : Uploads]
  /\ response = NoCall
  /\ db = [s \in SubIds |-> NoRow]
  /\ competition \in {c \in Competitions : c.status = "draft"}
  /\ files = 0
  /\ queue = EmptyBag
  /\ running = EmptyBag
  /\ now = 0
  /\ async_scoring_enabled = FALSE
  /\ procCount = [s \in SubIds |-> 0]
  /\ termCount = [s \in SubIds |-> 0]
  /\ redelivered = 0
  /\ faults = 0
  /\ ev = Event("init", 0, "", "", None, 0, NoNotify)

\* _save_file: storage.save(storage_key, content); the locator it returns
\* becomes submission.file_path
SaveFile ==
  /\ response = NoCall
  /\ LET key == storage_key(request.upload)
     IN response' = [pc |-> "saved", storage_key |-> key,
                     file_path |-> Locator(request.settings, key),
                     stored |-> {Locator(request.settings, key)},
                     key |-> <<>>, found |-> FALSE]
  /\ UNCHANGED <<db, files, queue, running, now, competition,
                 async_scoring_enabled, procCount, termCount, redelivered,
                 faults, ev, request>>

\* the scoring task: key extraction and storage.load(key)
LoadFile ==
  /\ response # NoCall
  /\ response.pc = "saved"
  /\ LET key == extract_key(response.file_path)
     IN response' = [response EXCEPT
                       !.pc = "loaded",
                       !.key = key,
                       !.found = Locator(request.settings, key)
                                   \in response.stored]
  /\ UNCHANGED <<db, files, queue, running, now, competition,
                 async_scoring_enabled, procCount, termCount, redelivered,
                 faults, ev, request>>

StorageNext == SaveFile \/ LoadFile

StorageSpec == StorageInit /\ [][StorageNext]_vars

\* ------------------------------------------------------ concurrent intake
\* Several submit requests in flight in one event loop.  A handler gives up
\* control at every await: the count query and the INSERT of repo.create
\* are separate steps, with the file reads and the save between them.  An
\* inserted row is taken to be visible to the other handlers at once.
Handlers == 1..MaxHandlers

\* the state of a handler: where it is in submit, whose upload it handles
\* and the today_count it read
Handler(pc, user, today_count) ==
  [pc |-> pc, user |-> user, today_count |-> today_count]

RaceInit ==
  /\ request \in [Handlers -> {Handler("start", u, 0) : u \in Users}]
  /\ response = NoCall
  /\ db = [s \in Handlers |-> NoRow]
  /\ competition \in {c \in Competitions :
                        /\ c.status = "active"
                        /\ c.solution = "none"
                        /\ c.metric_known}
  /\ now = 1
  /\ files = 0
  /\ queue = EmptyBag
  /\ running = EmptyBag
  /\ async_scoring_enabled = TRUE
  /\ procCount = [s \in SubIds |-> 0]
  /\ termCount = [s \in SubIds |-> 0]
  /\ redelivered = 0
  /\ faults = 0
  /\ ev = Event("init", 0, "", "", None, 0, NoNotify)

\* submit up to the result of await self.repo.count_today_by_user(...)
CountToday(h) ==
  /\ request[h].pc = "start"
  /\ request' =
       [request EXCEPT ![h] =
          IF \/ competition.status # "active"
             \/ now > competition.end_date
             \/ now < competition.start_date
            THEN Handler("rejected", @.user, 0)
            ELSE Handler("counted", @.user, count_today_by_user(@.user))]
  /\ UNCHANGED <<db, files, queue, running, now, competition,
                 async_scoring_enabled, procCount, termCount, redelivered,
                 faults, ev, response>>

\* submit from the comparison of today_count with the limit to repo.create
CreateSubmission(h) ==
  /\ request[h].pc = "counted"
  /\ IF request[h].today_count >= competition.daily_submission_limit
       THEN /\ request' = [request EXCEPT ![h].pc = "rejected"]
            /\ UNCHANGED <<db, files>>
       ELSE LET sid == SetMin({s \in DOMAIN db : db[s] = NoRow})
            IN /\ db' = [db EXCEPT
                           ![sid] = NewSubmission(request[h].user, "ok", now)]
               /\ files' = IF files < 2 THEN files + 1 ELSE files
               /\ request' = [request EXCEPT ![h].pc = "created"]
  /\ UNCHANGED <<queue, running, now, competition, async_scoring_enabled,
                 procCount, termCount, redelivered, faults, ev, response>>

RaceNext == \E h \in Handlers : CountToday(h) \/ CreateSubmission(h)

RaceSpec == RaceInit /\ [][RaceNext]_vars

\* ------------------------------------------------------------------ teams
\* TeamService over one competition in which every user is enrolled.  A call
\* that raises ValueError changes nothing and is not a step.
TeamIds == 1..MaxTeams
TeamUsers == {"u1", "u2", "u3"}

\* TeamRole, and "none" for a user who has no row in team_members
TeamRoles == {"LEADER", "MEMBER"}

\* the tables teams, team_members and team_invitations: the teams created,
\* the role of each user in each team, the status of the latest invitation
\* of each user to each team
NoTeams ==
  [created |-> {},
   role |-> [t \in TeamIds |-> [u \in TeamUsers |-> "none"]],
   invitation |-> [t \in TeamIds |-> [u \in TeamUsers |-> "none"]]]

\* TeamRepository.get_team_members
get_team_members(t) == {u \in TeamUsers : db.role[t][u] # "none"}

\* TeamRepository.count_members
count_members(t) == Cardinality(get_team_members(t))

\* TeamRepository.get_user_team: a team was found
get_user_team(u) == \E t \in db.created : db.role[t][u] # "none"

\* TeamRepository.update_member_role: no row, no change
update_member_role(role, t, u, r) ==
  IF role[t][u] = "none" THEN role ELSE [role EXCEPT ![t][u] = r]

\* TeamRepository.remove_member
remove_member(role, t, u) == [role EXCEPT ![t][u] = "none"]

TeamInit ==
  /\ db = NoTeams
  /\ competition \in [max_team_size : {1, 2, 3}]
  /\ request = NoCall
  /\ response = NoCall
  /\ files = 0
  /\ queue = EmptyBag
  /\ running = EmptyBag
  /\ now = 0
  /\ async_scoring_enabled = FALSE
  /\ procCount = [s \in SubIds |-> 0]
  /\ termCount = [s \in SubIds |-> 0]
  /\ redelivered = 0
  /\ faults = 0
  /\ ev = Event("init", 0, "", "", None, 0, NoNotify)

TeamUnchanged ==
  UNCHANGED <<files, queue, running, now, competition,
              async_scoring_enabled, procCount, termCount, redelivered,
              faults, ev, request, response>>

\* TeamService.create_team
CreateTeam(creator) ==
  /\ competition.max_team_size > 1
  /\ ~get_user_team(creator)
  /\ db.created # TeamIds
  /\ LET t == SetMin(TeamIds \ db.created)
     IN db' = [db EXCEPT !.created = @ \cup {t},
                         !.role[t][creator] = "LEADER"]
  /\ TeamUnchanged

\* TeamService.invite_member
InviteMember(t, inviter, invitee) ==
  /\ t \in db.created
  /\ db.role[t][inviter] = "LEADER"
  /\ ~get_user_team(invitee)
  /\ count_members(t) < competition.max_team_size
  /\ db.invitation[t][invitee] # "PENDING"
  /\ db' = [db EXCEPT !.invitation[t][invitee] = "PENDING"]
  /\ TeamUnchanged

\* TeamService.accept_invitation; expired: expires_at < now
AcceptInvitation(t, user, expired) ==
  /\ db.invitation[t][user] = "PENDING"
  /\ IF expired
       THEN db' = [db EXCEPT !.invitation[t][user] = "EXPIRED"]
       ELSE /\ t \in db.created
            /\ count_members(t) < competition.max_team_size
            /\ ~get_user_team(user)
            /\ db' = [db EXCEPT !.invitation[t][user] = "ACCEPTED",
                                !.role[t][user] = "MEMBER"]
  /\ TeamUnchanged

\* TeamService.decline_invitation
DeclineInvitation(t, user) ==
  /\ db.invitation[t][user] = "PENDING"
  /\ db' = [db EXCEPT !.invitation[t][user] = "DECLINED"]
  /\ TeamUnchanged

\* leave_team when the leader leaves: the promotion of new_leader, the
\* first of the other members in the order the query returns them
Promote(role, t, user, new_leader) ==
  update_member_role(role, t, new_leader, "LEADER")

\* TeamService.leave_team
LeaveTeam(t, user) ==
  /\ t \in db.created
  /\ db.role[t][user] # "none"
  /\ LET other_members == get_team_members(t) \ {user}
     IN IF db.role[t][user] = "LEADER" /\ other_members # {}
          THEN \E new_leader \in other_members :
                 db' = [db EXCEPT
                          !.role = remove_member(
                                     Promote(@, t, user, new_leader),
                                     t, user)]
          ELSE db' = [db EXCEPT !.role = remove_member(@, t, user)]
  /\ TeamUnchanged

\* TeamService.remove_member
RemoveMember(t, member_user_id, remover) ==
  /\ t \in db.created
  /\ db.role[t][remover] = "LEADER"
  /\ member_user_id # remover
  /\ db.role[t][member_user_id] # "none"
  /\ db' = [db EXCEPT !.role = remove_member(@, t, member_user_id)]
  /\ TeamUnchanged

\* TeamService.transfer_leadership
TransferLeadership(t, new_leader_id, current_leader) ==
  /\ t \in db.created
  /\ db.role[t][current_leader] = "LEADER"
  /\ db.role[t][new_leader_id] # "none"
  /\ db' = [db EXCEPT
              !.role = update_member_role(
                         update_member_role(@, t, current_leader, "MEMBER"),
                         t, new_leader_id, "LEADER")]
  /\ TeamUnchanged

TeamNext ==
  \/ \E u \in TeamUsers : CreateTeam(u)
  \/ \E t \in TeamIds, u, v \in TeamUsers : InviteMember(t, u, v)
  \/ \E t \in TeamIds, u \in TeamUsers, expired \in BOOLEAN :
       AcceptInvitation(t, u, expired)
  \/ \E t \in TeamIds, u \in TeamUsers : DeclineInvitation(t, u)
  \/ \E t \in TeamIds, u \in TeamUsers : LeaveTeam(t, u)
  \/ \E t \in TeamIds, u, v \in TeamUsers : RemoveMember(t, u, v)
  \/ \E t \in TeamIds, u, v \in TeamUsers : TransferLeadership(t, u, v)

TeamSpec == TeamInit /\ [][TeamNext]_vars

\* ------------------------------------------------------------------ claims
Rows == {s \in SubIds : db[s] # NoRow}

\* number of copies in bag b of the elements of S
CountIn(b, S) ==
  LET RECURSIVE Sum(_)
      Sum(T) == IF T = {} THEN 0
                ELSE LET x == CHOOSE y \in T : TRUE
                     IN CopiesIn(x, b) + Sum(T \ {x})
  IN Sum(S \cap BagToSet(b))

JobsOf(s) ==
  CountIn(queue, {j \in BagToSet(queue) : j.sid = s})
  + CountIn(running, {a \in BagToSet(running) : a.sid = s})

\* C1: a task execution that finds the stored status SCORED returns the stored
\* public_score, runs neither the scorer nor the mock scoring, starts no
\* processing and leaves the stored row as it was (so a second such execution
\* returns the same).
C1_ScoredIsSkipped ==
  [][(ev'.op = "load" /\ db[ev'.sid].status = "SCORED")
       => /\ ev'.out = "already_scored"
          /\ ev'.score = db[ev'.sid].public_score
          /\ ev'.calls = 0
          /\ db' = db
          /\ running' = running]_vars

C1_Witness ==
  /\ ev.op = "load" /\ ev.out = "already_scored"
  /\ db[ev.sid].status = "SCORED"
  /\ ev.score = db[ev.sid].public_score

\* C2: once the stored status is SCORED or FAILED, no step changes any stored
\* field of that submission.
C2_TerminalIsAbsorbing ==
  [][\A s \in SubIds : Terminal(db[s].status) => db'[s] = db[s]]_vars

\* C3: of the executions running for one submission at the same time, at most
\* one is past the idempotency check, that is, about to score and to write a
\* terminal state.
C3_AtMostOneEffective ==
  \A s \in SubIds :
    CountIn(running, {a \in BagToSet(running) :
                        a.sid = s /\ a.pc = "processing"}) <= 1

\* C4: over the life of a submission the status becomes PROCESSING at most
\* once and a terminal status is written at most once.
C4_TransitionsOnce ==
  \A s \in SubIds : procCount[s] <= 1 /\ termCount[s] <= 1

\* C5: in every stored row, public_score and private_score are populated
\* exactly when the status is SCORED.
C5_ScoresIffScored ==
  \A s \in Rows :
    /\ db[s].status = "SCORED" =>
         (db[s].public_score # None /\ db[s].private_score # None)
    /\ db[s].status # "SCORED" =>
         (db[s].public_score = None /\ db[s].private_score = None)

\* C6: in every stored row, error_message is populated exactly when the
\* status is FAILED.
C6_ErrorIffFailed ==
  \A s \in Rows : (db[s].error_message # None) <=> (db[s].status = "FAILED")

\* C7: a submission with a queued job eventually has status SCORED or FAILED,
\* and a submission of the queued mode none of whose jobs is queued or running
\* any more has status SCORED or FAILED.
C7_ReachesTerminal ==
  /\ [](\A s \in Rows : (async_scoring_enabled /\ JobsOf(s) = 0)
                          => Terminal(db[s].status))
  /\ \A s \in SubIds : (s \in Rows /\ JobsOf(s) > 0)
                         ~> (s \in Rows /\ Terminal(db[s].status))

C7_Witness ==
  /\ ev.op = "task" /\ ev.out = "raised" /\ Idle
  /\ db[ev.sid].status = "FAILED"

\* C8: the n-th execution of a job carries retry count n-1, and no message or
\* execution carries a retry count above max_retries: a job runs at most
\* 1 + max_retries times and nothing is scheduled after the last failure.
C8_RetriesCapped ==
  \A j \in BagToSet(queue) \cup BagToSet(running) :
    j.retries + 1 <= 1 + max_retries

C8_Witness ==
  /\ ev.op = "task" /\ ev.out = "raised" /\ redelivered = 0
  /\ JobsOf(ev.sid) = 0

\* C9: with inline scoring, no exception of the scoring step leaves submit.
C9_SyncScoringNeverRaises ==
  ev.op = "submit" => ev.out # "raised_scoring"

\* C10: a submit made while the competition is not active, outside its
\* window, or by a user at the daily limit raises, and it creates no row,
\* stores no file, queues no job and scores nothing.
SubmissionsToday(u) ==
  Cardinality({s \in Rows : db[s].user_id = u
                            /\ Date(db[s].created_at) = Date(now)})

Closed(u) ==
  \/ competition.status # "active"
  \/ now < competition.start_date
  \/ now > competition.end_date
  \/ SubmissionsToday(u) >= competition.daily_submission_limit

C10_IntakeFailsClosed ==
  [][(ev'.op = "submit" /\ Closed(ev'.user))
       => /\ ev'.out = "raised_intake"
          /\ ev'.calls = 0
          /\ UNCHANGED <<db, files, queue, running>>]_vars

C10_Witness ==
  /\ ev.op = "submit" /\ ev.out = "raised_intake"
  /\ competition.status = "active"
  /\ now >= competition.start_date /\ now <= competition.end_date
  /\ SubmissionsToday(ev.user) >= competition.daily_submission_limit

C13_TerminalIsNotified ==
  [][\A s \in SubIds :
       (Terminal(db'[s].status) /\ db'[s].status # db[s].status)
         => /\ ev'.sid = s
            /\ ev'.notify # NoNotify
            /\ ev'.notify[2] = db'[s].status]_vars

\* C14: in every stored row with status SCORED, public_score equals
\* private_score.
C14_PublicEqualsPrivate ==
  \A s \in Rows :
    db[s].status = "SCORED" => db[s].public_score = db[s].private_score

\* ------------------------------------------------- claims on the leaderboard
Board == response.entries

LowerBetter == competition.evaluation_metric \in {"rmse", "RMSE", "mae", "MAE"}

ScoredRowsOf(u) ==
  {i \in DOMAIN db : db[i].status = "SCORED" /\ db[i].user_id = u}

EarliestScored(u) == SetMin({db[i].created_at : i \in ScoredRowsOf(u)})

\* C15: the ranks of the entries returned by get_leaderboard are 1, 2, ..., n
\* in list order.
C15_RanksContiguous ==
  request.op = "get_leaderboard"
    => \A i \in 1..Len(Board) : Board[i].rank = i

C15_Witness ==
  /\ request.op = "get_leaderboard" /\ Len(Board) = 2
  /\ Board[1].rank = 1 /\ Board[2].rank = 2

\* C16: each entry's best_score is not worse than the next entry's: not
\* above it for rmse and mae, not below it for the other metrics.
C16_OrderedByScore ==
  request.op = "get_leaderboard"
    => \A i \in 1..(Len(Board) - 1) :
         IF LowerBetter THEN Board[i].best_score <= Board[i + 1].best_score
                        ELSE Board[i].best_score >= Board[i + 1].best_score

C16_Witness ==
  /\ request.op = "get_leaderboard" /\ Len(Board) = 2 /\ LowerBetter
  /\ Board[1].best_score < Board[2].best_score

C18_ScoredRowsOnly ==
  request.op = "get_leaderboard"
    => /\ \A i \in 1..Len(Board) :
            LET S == ScoredRowsOf(Board[i].user_id)
                P == {db[k].public_score[1] : k \in S}
            IN /\ S # {}
               /\ Board[i].submission_count = Cardinality(S)
               /\ Board[i].best_score \in P
               /\ \A x \in P : IF LowerBetter THEN Board[i].best_score <= x
                                               ELSE Board[i].best_score >= x
               /\ \A j \in 1..Len(Board) :
                    j # i => Board[j].user_id # Board[i].user_id
       /\ LET scorers == {u \in Users : ScoredRowsOf(u) # {}}
          IN /\ response.total_participants = Len(Board)
             /\ Len(Board) = IF request.limit < Cardinality(scorers)
                               THEN request.limit ELSE Cardinality(scorers)

\* an entry of a user who also has a row that is not SCORED and holds a
\* better score
C18_Witness ==
  /\ request.op = "get_leaderboard" /\ ~LowerBetter
  /\ \E i \in 1..Len(Board), k \in DOMAIN db :
       /\ db[k].user_id = Board[i].user_id
       /\ db[k].status # "SCORED"
       /\ db[k].public_score # None
       /\ db[k].public_score[1] > Board[i].best_score

\* C19: in a team competition no two entries belong to members of the same
\* team.
C19_TeamIsOneEntry ==
  (request.op = "get_leaderboard" /\ competition.max_team_size > 1)
    => \A i \in 1..Len(Board), j \in 1..Len(Board) :
         i # j => competition.team_of[Board[i].user_id]
                    # competition.team_of[Board[j].user_id]

\* --------------------------------------------------- claims on validation
\* C20: a result returned by validate_submission is valid exactly when its
\* error list is empty; a valid result has at least one data row, its id and
\* value lists have row_count entries each, the ids are pairwise different,
\* non-empty and trimmed, and every value lies within the bounds given and,
\* for the binary type, is 0 or 1.
C20_ValidIffNoErrors ==
  (response # NoCall /\ ~response.raised)
    => /\ response.valid <=> (response.errors = <<>>)
       /\ response.valid
            => /\ response.row_count >= 1
               /\ Len(response.ids) = response.row_count
               /\ Len(response.values) = response.row_count
               /\ \A i \in 1..Len(response.ids) :
                    /\ response.ids[i] \notin {"", " a"}
                    /\ \A j \in 1..Len(response.ids) :
                         i # j => response.ids[i] # response.ids[j]
               /\ \A i \in 1..Len(response.values) :
                    LET x == response.values[i]
                    IN /\ request.call.bounds # None
                            => (/\ ~x.nan
                                /\ request.call.bounds[1][1] <= x.v
                                /\ x.v <= request.call.bounds[1][2])
                       /\ request.call.value_type = "binary"
                            => (~x.nan /\ x.v \in {0, 1})

\* the positions of the returned errors with the given code
ErrorsWith(code) ==
  {i \in 1..Len(response.errors) : response.errors[i].code = code}

\* the positions of the returned errors with the given code and row number
ErrorsAt(code, row) ==
  {i \in ErrorsWith(code) : response.errors[i].row = row}

\* a call of validate_submission has returned a result
Returned == response # NoCall /\ ~response.raised

FileRows == request.call.content.rows

FullHeader == request.call.content.header = {"id", "prediction"}

\* C21: when the header lacks the id column or the value column, the result
\* is invalid, its errors are one MISSING_COLUMN per missing column and
\* nothing else, and no row was scanned: row_count is 0 and nothing is
\* parsed, whatever the rows contain.
C21_MissingColumnFailsFast ==
  (response # NoCall /\ request.call.content.readable /\ ~FullHeader)
    => /\ ~response.raised
       /\ ~response.valid
       /\ response.row_count = 0
       /\ response.ids = <<>>
       /\ response.values = <<>>
       /\ \A i \in 1..Len(response.errors) :
            response.errors[i].code = "MISSING_COLUMN"
       /\ \A c \in {"id", "prediction"} :
            Cardinality({i \in 1..Len(response.errors) :
                           response.errors[i].field = c})
              = IF c \in request.call.content.header THEN 0 ELSE 1

C21_Witness ==
  /\ response # NoCall
  /\ request.call.content.header = {"id"}
  /\ Len(FileRows) = MaxCsvRows
  /\ FileRows[1].id = "a"
  /\ Len(response.errors) = 1

\* C22: a later occurrence of an id gets a DUPLICATE_ID error with its row
\* number (the header is row 1) and is not recorded again: no id occurs
\* twice in the parsed id list.
C22_DuplicatesNotRecorded ==
  (Returned /\ request.call.content.readable /\ FullHeader)
    => /\ \A k \in 1..Len(FileRows) :
            (ErrorsAt("DUPLICATE_ID", k + 1) # {})
              <=> /\ strip(FileRows[k].id) # ""
                  /\ \E j \in 1..(k - 1) :
                       strip(FileRows[j].id) = strip(FileRows[k].id)
       /\ \A i, j \in 1..Len(response.ids) :
            i # j => response.ids[i] # response.ids[j]

\* the number a prediction cell stands for under the value type of the call,
\* if it stands for one
Parses(cell) ==
  \/ cell \in {"0", "1", "2"}
  \/ cell = "nan" /\ request.call.value_type = "float"

\* the rows whose id and value are both read
ParsedRows ==
  {k \in 1..Len(FileRows) :
     FileRows[k].id # "" /\ Parses(FileRows[k].prediction)}

\* C23: for a parsed value v, VALUE_OUT_OF_RANGE is reported exactly when
\* v < value_min or v > value_max, a value equal to a bound being accepted,
\* and for the binary type INVALID_BINARY exactly when v is not 0 or 1; in
\* both cases the row's id and value are still in the parsed output.
C23_RangeAndBinary ==
  (Returned /\ request.call.content.readable /\ FullHeader)
    => /\ Len(response.ids) = Cardinality(ParsedRows)
       /\ Len(response.values) = Cardinality(ParsedRows)
       /\ \A k \in ParsedRows :
            LET cell == FileRows[k].prediction
                at == Cardinality({j \in ParsedRows : j <= k})
                number == cell # "nan"
                v == CASE cell = "0" -> 0
                       [] cell = "1" -> 1
                       [] cell = "2" -> 2
                       [] OTHER -> 0
                bounds == request.call.bounds
            IN /\ (ErrorsAt("VALUE_OUT_OF_RANGE", k + 1) # {})
                    <=> /\ bounds # None
                        /\ number
                        /\ v < bounds[1][1] \/ v > bounds[1][2]
               /\ (ErrorsAt("INVALID_BINARY", k + 1) # {})
                    <=> /\ request.call.value_type = "binary"
                        /\ v \notin {0, 1}
               /\ response.ids[at]
                    = (IF FileRows[k].id = " a" THEN "a" ELSE FileRows[k].id)
               /\ response.values[at].nan = ~number
               /\ number => response.values[at].v = v

C23_Witness ==
  /\ Returned
  /\ request.call.bounds # None
  /\ Len(FileRows) = 2
  /\ FileRows[1].prediction = "1"
  /\ FileRows[2].prediction = "2"
  /\ ErrorsAt("VALUE_OUT_OF_RANGE", 2) = {}
  /\ ErrorsAt("VALUE_OUT_OF_RANGE", 3) # {}
  /\ Len(response.values) = 2

\* the non-empty trimmed ids of the file
SeenInFile ==
  {IF FileRows[k].id = " a" THEN "a" ELSE FileRows[k].id :
     k \in 1..Len(FileRows)} \ {""}

\* C24: with an expected-id set E and S the non-empty trimmed ids of the
\* file, the result has one MISSING_IDS error iff E \ S is non-empty and one
\* EXTRA_IDS error iff S \ E is non-empty, each listing at most 5 ids and
\* marking the ones left out; with no expected-id set it has neither.
C24_SetMismatchSummarised ==
  (Returned /\ request.call.content.readable /\ FullHeader)
    => LET E == request.call.expected_ids
           Count(code, ids) ==
             /\ Cardinality(ErrorsWith(code)) = IF ids # {} THEN 1 ELSE 0
             /\ \A i \in ErrorsWith(code) :
                  /\ response.errors[i].total = Cardinality(ids)
                  /\ response.errors[i].shown <= 5
                  /\ response.errors[i].shown <= Cardinality(ids)
                  /\ response.errors[i].more
                       <=> response.errors[i].shown < Cardinality(ids)
       IN IF E = None
            THEN ErrorsWith("MISSING_IDS") = {} /\ ErrorsWith("EXTRA_IDS") = {}
            ELSE /\ Count("MISSING_IDS", E[1] \ SeenInFile)
                 /\ Count("EXTRA_IDS", SeenInFile \ E[1])

C24_Witness ==
  /\ Returned
  /\ request.call.expected_ids = Some(ManyIds)
  /\ \E i \in ErrorsWith("MISSING_IDS") : response.errors[i].more
  /\ ErrorsWith("EXTRA_IDS") # {}

\* ------------------------------------------------------ claims on metrics
\* the positions of the positive and of the negative actuals
Positives == {i \in 1..Len(request.actuals) : request.actuals[i] = 1}

Negatives == {i \in 1..Len(request.actuals) : request.actuals[i] = 0}

\* the (positive, negative) pairs in which the positive comes first in the
\* stable descending order of the predictions
Concordant ==
  {pn \in Positives \X Negatives :
     \/ request.predictions[pn[1]].v > request.predictions[pn[2]].v
     \/ /\ request.predictions[pn[1]].v = request.predictions[pn[2]].v
        /\ pn[1] < pn[2]}

SolutionRows == request.solution_file.content.rows

SolutionLoads ==
  /\ request.solution_file.exists
  /\ SolutionRows # <<>>
  /\ \A i, j \in 1..Len(SolutionRows) :
       i # j => SolutionRows[i].id # SolutionRows[j].id

\* the value type of the metric accepts the cell
Accepts(cell) ==
  \/ cell \in {"0", "1"}
  \/ cell = "nan" /\ request.metric = "auc_roc"

\* the submission passes validation against the solution's ids: one row for
\* each solution id and no other, every value accepted
SubmissionValid ==
  LET rows == request.content.rows
      Id(k) == IF rows[k].id = " a" THEN "a" ELSE rows[k].id
  IN /\ Len(rows) = Len(SolutionRows)
     /\ \A i \in 1..Len(SolutionRows) :
          \E k \in 1..Len(rows) : Id(k) = SolutionRows[i].id
     /\ \A k \in 1..Len(rows) : Accepts(rows[k].prediction)

\* C25: a metric domain failure does not leave Scorer.score as an
\* exception: when the solution has targets of one class only and a valid
\* submission is scored under auc_roc, score returns a result with
\* success false, an error message and no score, and the submission is
\* recorded as FAILED with that message.
C25_DomainFailureIsResult ==
  (/\ response # NoCall
   /\ request.metric = "auc_roc"
   /\ SolutionLoads
   /\ SubmissionValid
   /\ \A i, j \in 1..Len(SolutionRows) :
        SolutionRows[i].prediction = SolutionRows[j].prediction)
    => /\ ~response.result.raised
       /\ ~response.result.success
       /\ response.result.score = None
       /\ response.result.error_message # None
       /\ response.result.metric_call # None
       /\ response.submission.status = "FAILED"
       /\ response.submission.error_message = response.result.error_message
       /\ response.submission.public_score = None

C25_Witness ==
  /\ response # NoCall
  /\ request.metric = "auc_roc"
  /\ SolutionLoads
  /\ SubmissionValid
  /\ Len(SolutionRows) = 2
  /\ SolutionRows[1].prediction = "1"
  /\ SolutionRows[2].prediction = "1"
  /\ response.submission.status = "FAILED"

\* C27: when Scorer.score reaches the metric call, the lists passed to the
\* metric hold one (prediction, truth) pair for each solution id, in the
\* order of the solution, the prediction being the submission's one value
\* for that id.
C27_PairsFollowSolution ==
  (response # NoCall /\ response.result.metric_call # None)
    => LET lists == response.result.metric_call[1]
           rows == request.content.rows
       IN /\ SolutionLoads
          /\ Len(lists.predictions) = Len(SolutionRows)
          /\ Len(lists.actuals) = Len(SolutionRows)
          /\ \A i \in 1..Len(SolutionRows) :
               /\ lists.actuals[i]
                    = (IF SolutionRows[i].prediction = "1" THEN 1 ELSE 0)
               /\ Cardinality({k \in 1..Len(rows) :
                     (IF rows[k].id = " a" THEN "a" ELSE rows[k].id)
                       = SolutionRows[i].id}) = 1
               /\ \E k \in 1..Len(rows) :
                    /\ (IF rows[k].id = " a" THEN "a" ELSE rows[k].id)
                         = SolutionRows[i].id
                    /\ lists.predictions[i].nan
                         = (rows[k].prediction = "nan")
                    /\ ~lists.predictions[i].nan
                         => lists.predictions[i].v
                              = (IF rows[k].prediction = "1" THEN 1 ELSE 0)

C27_Witness ==
  /\ response # NoCall
  /\ response.result.success
  /\ Len(SolutionRows) = 2
  /\ SolutionRows[1].id = "b"
  /\ request.content.rows[1].id = " a"
  /\ request.content.rows[1].prediction = "1"
  /\ request.content.rows[2].prediction = "0"

\* ------------------------------------------------------ claims on storage
\* C28: for every key generated at upload, the key that the scoring task
\* extracts from the locator returned by save is the same key, for any
\* bucket and any base directory, so that its load finds the uploaded file.
C28_KeyRoundTrip ==
  (response # NoCall /\ response.pc = "loaded")
    => /\ response.key = response.storage_key
       /\ response.found

\* ------------------------------------------- claims on concurrent intake
\* C29: for every user and calendar day, the number of submission rows the
\* user created in the competition on that day never exceeds the
\* competition's daily_submission_limit, also when several uploads of the
\* user are handled concurrently.
C29_DailyLimitHolds ==
  \A u \in Users : \A d \in 0..MaxTime :
    Cardinality({s \in DOMAIN db :
                   /\ db[s].status # "ABSENT"
                   /\ db[s].user_id = u
                   /\ db[s].created_at \div 2 = d})
      <= competition.daily_submission_limit

\* -------------------------------------------------------- claims on teams
\* C30: after any sequence of team operations, every team that has at least
\* one member has exactly one member with role LEADER.
C30_OneLeader ==
  \A t \in TeamIds :
    (\E u \in TeamUsers : db.role[t][u] # "none")
      => Cardinality({u \in TeamUsers : db.role[t][u] = "LEADER"}) = 1
====
